---- MODULE Spec2Model ----
(***************************************************************************)
(* ClaimFlow: the claim analysis pipeline (entity extraction,              *)
(* classification, similarity index), the embedding model cache and the    *)
(* claim action endpoint.                                                  *)
(*                                                                         *)
(* Text is a sequence of one-character strings.  An optional value is a    *)
(* sequence of length 0 (Python None) or 1 (the value).  Scores are        *)
(* hundredths: 1.0 is 100, 0.25 is 25.  Every score the classifier can     *)
(* compute is a multiple of 0.05 at distance at least 0.05 from the        *)
(* thresholds 0.3 and 0.6, except 0.5 - 0.2, which is exactly 0.3 in       *)
(* binary floating point too, so the comparisons agree with the floats.    *)
(***************************************************************************)
EXTENDS Integers, Sequences, FiniteSets, TLC

VARIABLES
    transcript,      \* the narrative handed to the function or request under way
    llm,             \* llm.py module global: "loaded" or "None"
    pc,              \* position inside extract_entities
    result,          \* extract_entities' local dict `result`
    outcome,         \* what each prompt's invoke() did in this call (history)
    extracted,       \* classify_claim's argument `extracted`
    cpc,             \* position inside classify_claim
    work,            \* classify_claim's locals: missing_count, missing_fields, score, flags
    fraud,           \* what the fraud prompt's invoke() did (history)
    classification,  \* the dict classify_claim returns
    disk_index,      \* the file at INDEX_PATH: absent, partly written, or n vectors
    disk_meta,       \* the file at META_PATH: absent, partly written, or n records
    _index,          \* similarity.py module global of the server process (None or ntotal)
    _meta,           \* similarity.py module global of the server process (its length)
    embedder,        \* whether SentenceTransformer(...) can be constructed now
    bpc,             \* position of the build script inside build_index
    corpus,          \* number of texts the running build was given
    last,            \* what the query_similar call that has just returned did (history)
    rpc,             \* position of the create request under way
    similar,         \* create's local `similar`
    response,        \* the HTTP response of the last create request
    _model,          \* embeddings.py module global
    tpc,             \* per thread: position inside get_model
    inst,            \* per thread: the instance it constructed
    constructed,     \* number of SentenceTransformer instances constructed (history)
    got,             \* per thread: the instance get_model returned
    claims,          \* Claim rows: id -> status
    emails,          \* EmailLog rows, oldest first
    accepted,        \* per claim: the actions answered with 200, oldest first (history)
    http             \* the response of the last action request

inputVars == <<transcript, llm>>
extractVars == <<pc, result, outcome>>
classifyVars == <<cpc, work, fraud>>
analysisVars == <<extracted, classification>>
indexVars == <<disk_index, disk_meta, _index, _meta, embedder, bpc, corpus, last>>
requestVars == <<rpc, similar, response>>
modelVars == <<tpc, inst, constructed, got>>
actionVars == <<claims, emails, accepted, http>>

vars == <<inputVars, extractVars, classifyVars, analysisVars, indexVars, requestVars,
          _model, modelVars, actionVars>>

\* what the actions of one component leave alone
notExtract == <<classifyVars, analysisVars, indexVars, requestVars, _model, modelVars,
                actionVars>>
notClassify == <<extractVars, indexVars, requestVars, _model, modelVars, actionVars>>
notService == <<extractVars, classifyVars, modelVars>>

notAction == <<inputVars, extractVars, classifyVars, analysisVars, indexVars, requestVars,
               _model, modelVars>>

----------------------------------------------------------------------------
(* Bounds *)

MaxLen == 2

----------------------------------------------------------------------------
(* Text helpers: str methods used by the services *)

None == <<>>
Some(v) == <<v>>

Min(a, b) == IF a < b THEN a ELSE b
Max(a, b) == IF a < b THEN b ELSE a

Rep(c, n) == [i \in 1..n |-> c]

RECURSIVE Strip(_)
Strip(s) ==
    IF s = <<>> THEN s
    ELSE IF Head(s) = " " THEN Strip(Tail(s))
    ELSE IF s[Len(s)] = " " THEN Strip(SubSeq(s, 1, Len(s) - 1))
    ELSE s

UpperCase == <<"A","B","C","D","E","F","G","H","I","J","K","L","M",
               "N","O","P","Q","R","S","T","U","V","W","X","Y","Z">>
LowerCase == <<"a","b","c","d","e","f","g","h","i","j","k","l","m",
               "n","o","p","q","r","s","t","u","v","w","x","y","z">>

LowerChar(c) ==
    IF \E i \in 1..26 : UpperCase[i] = c
    THEN LowerCase[CHOOSE i \in 1..26 : UpperCase[i] = c]
    ELSE c

Lower(s) == [i \in 1..Len(s) |-> LowerChar(s[i])]

Contains(sub, s) ==
    \E i \in 0..(Len(s) - Len(sub)) : SubSeq(s, i + 1, i + Len(sub)) = sub

Replace(s, c) == SelectSeq(s, LAMBDA x : x # c)

Prefix(s, n) == SubSeq(s, 1, Min(n, Len(s)))

----------------------------------------------------------------------------
(* Texts the model uses *)

Alphabet == {"5", "-", " "}

ShortTexts == UNION {[1..n -> Alphabet] : n \in 0..MaxLen}

T_none == <<"n","o","n","e">>
T_None == <<" ","N","o","n","e"," ">>
T_Bob == <<"B","o","b">>
T_May5 == <<"M","a","y"," ","5">>
T_Almaty == <<"A","l","m","a","t","y">>
T_amount == <<"1",",","2","0","0",".","5","0"," ","K","Z","T">>
T_dots == <<"1",".","2",".","3">>
T_zero == <<"0">>

MaxPhone == 30
MaxField == 50
MinDescription == 10
MaxDescription == 200

LongNarrative == Rep("5", MaxDescription + 1)

Narratives == ShortTexts \cup {LongNarrative}

NameReplies == {T_Bob, T_None, Rep("x", MaxField)}
PhoneReplies == ShortTexts \cup {T_None, Rep("5", MaxPhone), Rep("5", MaxPhone - 1)}
DateReplies == {T_May5, T_none}
LocationReplies == {T_Almaty}
AmountReplies == {T_amount, T_none, T_dots, T_zero}
DescriptionReplies == {Rep("a", MinDescription + 1), Rep("a", MinDescription)}

----------------------------------------------------------------------------
(* The generation backend: chain.invoke() returns a text or raises *)

Returned(text) == [raised |-> FALSE, text |-> text]
Raised == [raised |-> TRUE, text |-> <<>>]
NotAsked == [asked |-> FALSE]

Invoke(replies) == {Returned(t) : t \in replies} \cup {Raised}

Prompts == {"name", "phone", "date", "location", "amount", "description"}

----------------------------------------------------------------------------
(* extract_entities *)

minimal_record(t) ==
    [claimant_name |-> None, contact_phone |-> None, policy_number |-> None,
     incident_datetime |-> None, incident_location |-> None,
     incident_description |-> Some(Prefix(t, MaxDescription)),
     claimed_amount |-> None,
     detected_entities |-> <<>>, extraction_method |-> "llm_unavailable"]

initial_record ==
    [claimant_name |-> None, contact_phone |-> None,
     incident_datetime |-> None, incident_location |-> None,
     incident_description |-> None, claimed_amount |-> None,
     detected_entities |-> <<>>, extraction_method |-> "langchain_pure_llm"]

\* name / date / location: `if x and x.lower() != 'none' and len(x) < 50`
accept_text(x) == x # <<>> /\ Lower(x) # T_none /\ Len(x) < MaxField

name_step(r, t, o) ==
    IF o.raised THEN r
    ELSE LET name == Strip(o.text)
         IN  IF accept_text(name) THEN [r EXCEPT !.claimant_name = Some(name)] ELSE r

\* a bug: the reply is taken on trust
phone_accepted_unchecked(phone, t) == TRUE

phone_accepted(phone, t) ==
    LET phone_clean == Replace(Replace(phone, " "), "-")
        transcript_clean == Replace(Replace(t, " "), "-")
    IN  Contains(phone_clean, transcript_clean) \/ Contains(phone, t)

phone_step(r, t, o) ==
    IF o.raised THEN r
    ELSE LET phone == Strip(o.text)
         IN  IF phone # <<>> /\ Lower(phone) # T_none /\ Len(phone) < MaxPhone
                /\ phone_accepted(phone, t)
             THEN [r EXCEPT !.contact_phone = Some(phone)]
             ELSE r

date_step(r, t, o) ==
    IF o.raised THEN r
    ELSE LET date == Strip(o.text)
         IN  IF accept_text(date) THEN [r EXCEPT !.incident_datetime = Some(date)] ELSE r

location_step(r, t, o) ==
    IF o.raised THEN r
    ELSE LET location == Strip(o.text)
         IN  IF accept_text(location)
             THEN [r EXCEPT !.incident_location = Some(location)] ELSE r

Digits == <<"0","1","2","3","4","5","6","7","8","9">>
IsDigit(c) == \E i \in 1..10 : Digits[i] = c
DigitVal(c) == (CHOOSE i \in 1..10 : Digits[i] = c) - 1

RECURSIVE IntVal(_)
IntVal(s) == IF s = <<>> THEN 0 ELSE IntVal(SubSeq(s, 1, Len(s) - 1)) * 10 + DigitVal(s[Len(s)])

\* re.sub(r'[^\d,.]', '', amount_str).replace(',', '')
amount_clean(s) == Replace(SelectSeq(s, LAMBDA c : IsDigit(c) \/ c = "," \/ c = "."), ",")

\* float(): digits with at most one point and at least one digit, else ValueError
float_ok(s) ==
    /\ Len(SelectSeq(s, LAMBDA c : c = ".")) <= 1
    /\ \E i \in 1..Len(s) : IsDigit(s[i])

\* the float's value in hundredths (the replies carry at most two decimals)
float_value(s) ==
    LET dot == IF \E i \in 1..Len(s) : s[i] = "."
               THEN CHOOSE i \in 1..Len(s) : s[i] = "." ELSE Len(s) + 1
        whole == SubSeq(s, 1, dot - 1)
        frac == SubSeq(s, dot + 1, Min(Len(s), dot + 2))
    IN  IntVal(whole) * 100 + IntVal(frac \o Rep("0", 2 - Len(frac)))

amount_step(r, t, o) ==
    IF o.raised THEN r
    ELSE LET amount_str == Strip(o.text)
         IN  IF amount_str # <<>> /\ Lower(amount_str) # T_none
                /\ amount_clean(amount_str) # <<>> /\ float_ok(amount_clean(amount_str))
             THEN [r EXCEPT !.claimed_amount = Some(float_value(amount_clean(amount_str)))]
             ELSE r

\* a bug: the except branch forgets the fallback
description_step_no_fallback(r, t, o) ==
    IF o.raised THEN r
    ELSE LET description == Strip(o.text)
         IN  IF description # <<>> /\ Len(description) > MinDescription
             THEN [r EXCEPT !.incident_description = Some(description)]
             ELSE [r EXCEPT !.incident_description = Some(Prefix(t, MaxDescription))]

description_step(r, t, o) ==
    IF o.raised THEN [r EXCEPT !.incident_description = Some(Prefix(t, MaxDescription))]
    ELSE LET description == Strip(o.text)
         IN  IF description # <<>> /\ Len(description) > MinDescription
             THEN [r EXCEPT !.incident_description = Some(description)]
             ELSE [r EXCEPT !.incident_description = Some(Prefix(t, MaxDescription))]

EntityKeys == <<"claimant_name", "contact_phone", "incident_datetime",
                "incident_location", "claimed_amount">>

update_metadata(r) ==
    [r EXCEPT !.detected_entities = SelectSeq(EntityKeys, LAMBDA k : r[k] # None)]

\* the whole function, given what each of the six invoke() calls does
extract_entities(t, backend, o) ==
    IF backend = "None" THEN minimal_record(t)
    ELSE update_metadata(
           description_step(
             amount_step(
               location_step(
                 date_step(
                   phone_step(
                     name_step(initial_record, t, o["name"]),
                     t, o["phone"]),
                   t, o["date"]),
                 t, o["location"]),
               t, o["amount"]),
             t, o["description"]))

----------------------------------------------------------------------------
(* extract_entities, one prompt at a time *)

\* components that are not in use
ExtractIdle == pc = "idle" /\ result = None /\ outcome = [p \in Prompts |-> NotAsked]

ClassifyIdle == cpc = "idle" /\ work = None /\ fraud = NotAsked

AnalysisIdle == extracted = None /\ classification = None

Absent == [state |-> "absent", count |-> 0]
NoQuery == [op |-> "none"]

ServiceIdle ==
    /\ disk_index = Absent /\ disk_meta = Absent
    /\ _index = None /\ _meta = 0
    /\ embedder = "available" /\ bpc = "idle" /\ corpus = 0
    /\ last = NoQuery
    /\ rpc = "idle" /\ similar = None /\ response = None

ModelIdle ==
    /\ _model = None /\ tpc = <<>> /\ inst = <<>> /\ constructed = 0 /\ got = <<>>

ActionIdle == claims = <<>> /\ emails = <<>> /\ accepted = <<>> /\ http = None

ExtractOnly == ClassifyIdle /\ AnalysisIdle /\ ServiceIdle /\ ModelIdle /\ ActionIdle

ExtractInit ==
    /\ transcript \in Narratives
    /\ llm \in {"loaded", "None"}
    /\ pc = "begin"
    /\ result = None
    /\ outcome = [p \in Prompts |-> NotAsked]
    /\ ExtractOnly

Begin ==
    /\ pc = "begin"
    /\ IF llm = "None"
       THEN result' = minimal_record(transcript) /\ pc' = "return"
       ELSE result' = initial_record /\ pc' = "name"
    /\ UNCHANGED <<transcript, llm, outcome, notExtract>>

replies_of(at) ==
    CASE at = "name" -> NameReplies
      [] at = "phone" -> PhoneReplies
      [] at = "date" -> DateReplies
      [] at = "location" -> LocationReplies
      [] at = "amount" -> AmountReplies
      [] at = "description" -> DescriptionReplies

step_of(at, r, t, o) ==
    CASE at = "name" -> name_step(r, t, o)
      [] at = "phone" -> phone_step(r, t, o)
      [] at = "date" -> date_step(r, t, o)
      [] at = "location" -> location_step(r, t, o)
      [] at = "amount" -> amount_step(r, t, o)
      [] at = "description" -> description_step(r, t, o)

next_prompt(at) ==
    CASE at = "name" -> "phone"
      [] at = "phone" -> "date"
      [] at = "date" -> "location"
      [] at = "location" -> "amount"
      [] at = "amount" -> "description"
      [] at = "description" -> "metadata"

\* a bug: a raise inside a prompt's block leaves the function
after_prompt_uncaught(at, o) == IF o.raised THEN "raised" ELSE next_prompt(at)

\* where control goes after the prompt at `at`: every block is its own
\* try/except Exception, so a raise is caught and the next block runs
after_prompt(at, o) == next_prompt(at)

Prompt(at) ==
    /\ pc = at
    /\ \E o \in Invoke(replies_of(at)) :
         /\ outcome' = [outcome EXCEPT ![at] = o]
         /\ result' = step_of(at, result, transcript, o)
         /\ pc' = after_prompt(at, o)
    /\ UNCHANGED <<transcript, llm, notExtract>>

NamePrompt == Prompt("name")
PhonePrompt == Prompt("phone")
DatePrompt == Prompt("date")
LocationPrompt == Prompt("location")
AmountPrompt == Prompt("amount")
DescriptionPrompt == Prompt("description")

UpdateMetadata ==
    /\ pc = "metadata"
    /\ result' = update_metadata(result)
    /\ pc' = "return"
    /\ UNCHANGED <<transcript, llm, outcome, notExtract>>

ExtractNext ==
    \/ Begin
    \/ NamePrompt
    \/ PhonePrompt
    \/ DatePrompt
    \/ LocationPrompt
    \/ AmountPrompt
    \/ DescriptionPrompt
    \/ UpdateMetadata

SpecExtract == ExtractInit /\ [][ExtractNext]_vars

\* the same function on a few narratives: the empty one, the one-character
\* ones, one holding a phone number and one longer than the description limit
FailureNarratives ==
    {t \in ShortTexts : Len(t) <= 1} \cup {<<"5", "-", "5">>, LongNarrative}

FailuresInit ==
    /\ transcript \in FailureNarratives
    /\ llm \in {"loaded", "None"}
    /\ pc = "begin"
    /\ result = None
    /\ outcome = [p \in Prompts |-> NotAsked]
    /\ ExtractOnly

SpecFailures == FailuresInit /\ [][ExtractNext]_vars

----------------------------------------------------------------------------
(* Claims about extract_entities *)

Normalized(s) == Replace(Replace(s, " "), "-")

\* C2: a reported contact_phone, with spaces and hyphens removed, is a
\* substring of the narrative with spaces and hyphens removed, whatever the
\* generation model returned for the phone prompt.
C2_PhoneTraceable ==
    (pc # "begin" /\ result.contact_phone # None)
        => Contains(Normalized(result.contact_phone[1]), Normalized(transcript))

\* a phone was reported that matches the narrative only after normalization
C2_Witness ==
    /\ pc = "return"
    /\ result.contact_phone # None
    /\ Normalized(result.contact_phone[1]) # <<>>
    /\ ~Contains(result.contact_phone[1], transcript)

\* C3 as stated: for every narrative, the empty one included, the returned
\* incident_description is present and non-empty.
C3_DescriptionNonEmptyAlways ==
    pc = "return" =>
        /\ result.incident_description # None
        /\ result.incident_description[1] # <<>>

\* C3 amended: for every non-empty narrative and every outcome of the
\* description prompt (or with the backend unavailable), the returned
\* incident_description is present and non-empty.
C3_DescriptionNonEmpty ==
    (pc = "return" /\ transcript # <<>>) =>
        /\ result.incident_description # None
        /\ result.incident_description[1] # <<>>

\* the shortest non-empty narrative, with the description prompt raising
C3_Witness ==
    /\ pc = "return"
    /\ Len(transcript) = 1
    /\ llm = "loaded"
    /\ outcome["description"].raised
    /\ result.incident_description = Some(transcript)

FieldOf(p) ==
    CASE p = "name" -> "claimant_name"
      [] p = "phone" -> "contact_phone"
      [] p = "date" -> "incident_datetime"
      [] p = "location" -> "incident_location"
      [] p = "amount" -> "claimed_amount"
      [] p = "description" -> "incident_description"

\* replies a prompt could have given had it not raised: one its validator
\* accepts and one it rejects
Alternatives ==
    {[p \in Prompts |-> T_none],
     [name |-> T_Bob, phone |-> <<"5">>, date |-> T_May5, location |-> T_Almaty,
      amount |-> T_amount, description |-> Rep("a", MinDescription + 1)]}

Healed(o, alt) == [p \in Prompts |-> IF o[p].raised THEN Returned(alt[p]) ELSE o[p]]

\* C4: whatever subset of the six prompts raises, extract_entities runs every
\* prompt and returns; a failed name/phone/date/location/amount is null, a
\* failed description is the first 200 characters of the narrative, and each
\* field whose prompt did not fail has the value it has when no prompt fails.
C4_FailuresIsolated ==
    /\ pc # "raised"
    /\ (pc = "return" /\ llm = "loaded") =>
          /\ \A p \in Prompts : outcome[p] # NotAsked
          /\ \A p \in Prompts :
                outcome[p].raised =>
                    result[FieldOf(p)] =
                        IF p = "description"
                        THEN Some(Prefix(transcript, MaxDescription))
                        ELSE None
          /\ \A alt \in Alternatives :
                LET unfailed == extract_entities(transcript, llm, Healed(outcome, alt))
                IN  \A p \in Prompts :
                        ~outcome[p].raised => result[FieldOf(p)] = unfailed[FieldOf(p)]

\* name and description failed on a narrative longer than 200 characters,
\* while the phone and amount prompts succeeded and their fields are reported
C4_Witness ==
    /\ pc = "return"
    /\ llm = "loaded"
    /\ outcome["name"].raised
    /\ outcome["description"].raised
    /\ Len(transcript) > MaxDescription
    /\ Len(result.incident_description[1]) = MaxDescription
    /\ ~outcome["phone"].raised /\ result.contact_phone # None
    /\ ~outcome["amount"].raised /\ result.claimed_amount = Some(120050)

----------------------------------------------------------------------------
(* classify_claim *)

T_yes == <<"y","e","s">>
T_not_remember == <<"n","o","t"," ","r","e","m","e","m","b","e","r">>
T_dont_know == <<"d","o","n","'","t"," ","k","n","o","w">>
T_documents_missing ==
    <<"d","o","c","u","m","e","n","t","s"," ","m","i","s","s","i","n","g">>
T_lost == <<"l","o","s","t">>
T_documents == <<"d","o","c","u","m","e","n","t","s">>
T_someone_else == <<"s","o","m","e","o","n","e"," ","e","l","s","e">>
T_friend == <<"f","r","i","e","n","d">>
T_no == <<"n","o">>
T_car_hit == <<"c","a","r"," ","h","i","t">>
Sp == <<" ">>

ClassifyNarratives ==
    {T_car_hit,
     <<"I"," ","D","o","n","'","t"," ","K","n","o","w">>,
     T_lost,
     T_lost \o Sp \o T_documents,
     <<"m","y"," ">> \o T_friend,
     T_friend \o Sp \o T_lost \o Sp \o T_documents \o Sp \o T_dont_know}

FraudReplies ==
    {T_no,
     T_no \o Sp \o T_not_remember,
     <<" ","Y","E","S"," ">>,
     T_yes \o Sp \o T_not_remember,
     T_yes \o Sp \o T_documents_missing,
     T_yes \o Sp \o T_someone_else,
     T_yes \o Sp \o T_not_remember \o Sp \o T_documents_missing \o Sp \o T_someone_else}

ClassifyRecords ==
    [claimant_name : {None, Some(<<>>), Some(T_Bob)},
     incident_datetime : {None, Some(T_May5)},
     claimed_amount : {None, Some(0), Some(120050)}]

required_fields == <<"claimant_name", "incident_datetime", "claimed_amount">>

\* Python's `not extracted.get(field)`: None, the empty string and 0.0 are falsy
falsy(e, field) ==
    \/ e[field] = None
    \/ IF field = "claimed_amount" THEN e[field] = Some(0) ELSE e[field] = Some(<<>>)

\* lines 166-184: the counts, the completeness score and the missing_* flags;
\* `score` is the float in hundredths and `err` the sign of (the float minus
\* that decimal): 1.0 - missing_count * 0.25 is exact
completeness(e) ==
    LET missing_fields == SelectSeq(required_fields, LAMBDA f : falsy(e, f))
        missing_count == Len(missing_fields)
    IN  [missing_count |-> missing_count,
         missing_fields |-> missing_fields,
         score |-> 100 - missing_count * 25,
         err |-> 0,
         flags |-> (IF falsy(e, "claimant_name") THEN <<"missing_claimant_name">> ELSE <<>>)
                   \o (IF falsy(e, "claimed_amount") THEN <<"missing_amount">> ELSE <<>>)
                   \o (IF falsy(e, "incident_datetime") THEN <<"missing_date">> ELSE <<>>)]

memory_check(fraud_analysis, t) ==
    Contains(T_not_remember, fraud_analysis) \/ Contains(T_dont_know, Lower(t))

documentation_check(fraud_analysis, t) ==
    \/ Contains(T_documents_missing, fraud_analysis)
    \/ (Contains(T_lost, Lower(t)) /\ Contains(T_documents, Lower(t)))

third_party_check(fraud_analysis, t) ==
    Contains(T_someone_else, fraud_analysis) \/ Contains(T_friend, Lower(t))

\* `score -= 0.3` / `score -= 0.2` in IEEE-754 double arithmetic: the sign of
\* (the resulting float minus its decimal), for the float that is `score`
\* hundredths with error sign `err`.  0.3 is a float just below 0.3 and 0.2 a
\* float just above 0.2; the table lists every float the function can hold.
float_sub_err(score, err, amount) ==
    CASE score = 100 /\ amount = 30 -> -1
      [] score = 100 /\ amount = 20 -> 1
      [] score = 80 /\ amount = 30 -> 0
      [] score = 75 -> 1
      [] score = 70 -> -1
      [] score = 55 -> 1
      [] score = 50 /\ err = 0 /\ amount = 30 -> 1
      [] score = 50 /\ err = 0 /\ amount = 20 -> -1
      [] score = 50 /\ err = -1 -> -1
      [] score = 45 /\ amount = 30 -> 1
      [] score = 45 /\ amount = 20 -> 0
      [] score = 30 -> 0
      [] score = 25 /\ amount = 30 -> 1
      [] score = 25 /\ amount = 20 -> -1
      [] score = 20 /\ amount = 30 -> 1
      [] score = 20 /\ amount = 20 -> 0
      [] score = 5 -> 0
      [] score = 0 -> 1
      [] score = -5 /\ amount = 30 -> 1
      [] score = -5 /\ amount = 20 -> 0
      [] score = -25 -> -1

\* flags.append(name); score -= amount
append_flag(c, name, amount) ==
    [c EXCEPT !.flags = Append(@, name),
              !.score = @ - amount,
              !.err = float_sub_err(c.score, c.err, amount)]

\* lines 186-212: the fraud-indicator prompt; a raise is swallowed
fraud_pass(c, t, o) ==
    IF o.raised THEN c
    ELSE LET fraud_analysis == Lower(Strip(o.text))
             said_yes == Contains(T_yes, fraud_analysis)
             c1 == IF said_yes /\ memory_check(fraud_analysis, t)
                   THEN append_flag(c, "memory_issues", 30) ELSE c
             c2 == IF said_yes /\ documentation_check(fraud_analysis, t)
                   THEN append_flag(c1, "missing_documentation", 20) ELSE c1
             c3 == IF said_yes /\ third_party_check(fraud_analysis, t)
                   THEN append_flag(c2, "third_party_caller", 30) ELSE c2
         IN  c3

\* a bug: the flag-count test is off by one
label_of_off_by_one(score, nflags, missing_count) ==
    IF score < 30 \/ nflags > 3 THEN "fraudulent"
    ELSE IF score < 60 \/ missing_count >= 3 THEN "invalid"
    ELSE "valid"

\* lines 214-219
label_of(score, nflags, missing_count) ==
    IF score < 30 \/ nflags >= 3 THEN "fraudulent"
    ELSE IF score < 60 \/ missing_count >= 3 THEN "invalid"
    ELSE "valid"

_get_next_steps(label, flags) ==
    IF label = "fraudulent"
    THEN <<"escalate_to_fraud_team", "request_police_report", "verify_identity">>
    ELSE IF label = "invalid"
    THEN <<"request_missing_information", "verify_policy_coverage", "contact_claimant">>
    ELSE IF flags # <<>> THEN <<"verify_documents", "process_claim">>
    ELSE <<"approve_claim", "schedule_assessment">>

\* f"{score:.1f}": the float that is `score` hundredths with error sign
\* `err`, rounded to one decimal on its exact value (a tie goes to the even
\* digit), with the sign of the float kept even when the digits are 0.0
format_1f(score, err) ==
    LET a == IF score < 0 THEN -score ELSE score
        q == a \div 10
        r == a % 10
        away == IF score < 0 THEN -err ELSE err
        up == r > 5 \/ (r = 5 /\ (away > 0 \/ (away = 0 /\ q % 2 = 1)))
        tenths == IF up THEN q + 1 ELSE q
        negative == score < 0 \/ (score = 0 /\ err < 0)
    IN  (IF negative THEN "-" ELSE "") \o Digits[(tenths \div 10) + 1] \o "."
            \o Digits[(tenths % 10) + 1]

\* ', '.join(items), as the pieces it concatenates
RECURSIVE join(_)
join(items) ==
    IF Len(items) <= 1 THEN items ELSE <<Head(items), ", ">> \o join(Tail(items))

\* lines 221-227 and the .strip() of line 232, as the sequence of the pieces
\* concatenated; the first piece starts and the last piece ends with a
\* character that is not whitespace, so strip() removes nothing
rationale_of(c) ==
    <<"Completeness: ", format_1f(c.score, c.err), "/1.0. ">>
    \o (IF c.missing_fields # <<>>
        THEN <<"Missing: ">> \o join(c.missing_fields) \o <<". ">> ELSE <<>>)
    \o (IF c.flags # <<>>
        THEN <<"Flags: ">> \o join(c.flags) \o <<".">>
        ELSE <<"No red flags detected.">>)

\* max(0.0, min(1.0, score)) gives exactly 0.0 or 1.0 when it clamps
clamp_err(score, err) ==
    IF score < 0 \/ (score = 0 /\ err < 0) \/ score > 100 \/ (score = 100 /\ err > 0)
    THEN 0 ELSE err

\* lines 214-237: the label, the rationale and the returned dict (the score
\* is returned as hundredths with the float's error sign beside it)
decide(c) ==
    LET label == label_of(c.score, Len(c.flags), c.missing_count)
    IN  [label |-> label,
         score |-> Max(0, Min(100, c.score)),
         score_err |-> clamp_err(c.score, c.err),
         rationale |-> rationale_of(c),
         policy_flags |-> c.flags,
         suggested_next_steps |-> _get_next_steps(label, c.flags)]

\* `fraud_prompt | llm` raises inside the try block when llm is None
FraudInvoke(backend) == IF backend = "None" THEN {Raised} ELSE Invoke(FraudReplies)

classify_claim(e, t, o) == decide(fraud_pass(completeness(e), t, o))

----------------------------------------------------------------------------
(* classify_claim, one phase at a time *)

ClassifyInit ==
    /\ extracted \in ClassifyRecords
    /\ transcript \in ClassifyNarratives
    /\ llm \in {"loaded", "None"}
    /\ cpc = "completeness"
    /\ work = None
    /\ fraud = NotAsked
    /\ classification = None
    /\ ExtractIdle /\ ServiceIdle /\ ModelIdle /\ ActionIdle

Completeness ==
    /\ cpc = "completeness"
    /\ work' = completeness(extracted)
    /\ cpc' = "fraud"
    /\ UNCHANGED <<extracted, transcript, llm, fraud, classification, notClassify>>

FraudPass ==
    /\ cpc = "fraud"
    /\ \E o \in FraudInvoke(llm) :
         /\ fraud' = o
         /\ work' = fraud_pass(work, transcript, o)
    /\ cpc' = "decide"
    /\ UNCHANGED <<extracted, transcript, llm, classification, notClassify>>

Decide ==
    /\ cpc = "decide"
    /\ classification' = decide(work)
    /\ cpc' = "return"
    /\ UNCHANGED <<extracted, transcript, llm, work, fraud, notClassify>>

ClassifyNext ==
    \/ Completeness
    \/ FraudPass
    \/ Decide

SpecClassify == ClassifyInit /\ [][ClassifyNext]_vars

----------------------------------------------------------------------------
(* Claims about classify_claim *)

Labels == {"valid", "invalid", "fraudulent"}

\* the precedence rule, as the specification words it
PrecedenceRule(score, flag_count, missing) ==
    CASE score < 30 \/ flag_count >= 3 -> "fraudulent"
      [] ~(score < 30 \/ flag_count >= 3) /\ (score < 60 \/ missing >= 3) -> "invalid"
      [] OTHER -> "valid"

MissingFlagField(f) ==
    CASE f = "missing_claimant_name" -> "claimant_name"
      [] f = "missing_amount" -> "claimed_amount"
      [] f = "missing_date" -> "incident_datetime"

NullCount(e) == Cardinality({i \in 1..Len(required_fields) : e[required_fields[i]] = None})

\* C1: for every extracted record, narrative and fraud answer (or failure),
\* the returned score is within [0.0, 1.0] and the label is the one the
\* precedence rule gives for the returned score, the number of returned
\* policy_flags and the missing-field count (as the function counts it, and
\* also as the number of null fields).
C1_LabelFollowsRule ==
    cpc = "return" =>
        /\ classification.score \in 0..100
        /\ classification.label \in Labels
        /\ \A missing \in {work.missing_count, NullCount(extracted)} :
              classification.label =
                  PrecedenceRule(classification.score,
                                 Len(classification.policy_flags), missing)

\* fraudulent by the flag count alone: three flags with a score of exactly 0.3
C1_Witness ==
    /\ cpc = "return"
    /\ classification.score = 30
    /\ Len(classification.policy_flags) = 3
    /\ classification.label = "fraudulent"

\* C11 as stated: after the completeness step, for every record whose text
\* fields are null or non-empty and whose claimed_amount is null or any
\* non-negative value (0 included), the score is 1.0 minus 0.25 per null
\* field and the flags are exactly one missing_<field> flag per null field.
C11_NullFieldsPenalised ==
    (cpc = "fraud" /\ extracted.claimant_name # Some(<<>>)) =>
        /\ work.score = 100 - 25 * NullCount(extracted)
        /\ work.err = 0
        /\ \A f \in {"missing_claimant_name", "missing_amount", "missing_date"} :
              Cardinality({i \in 1..Len(work.flags) : work.flags[i] = f})
                  = IF extracted[MissingFlagField(f)] = None THEN 1 ELSE 0
        /\ Len(work.flags) = NullCount(extracted)

\* C12 as stated: the number written in the rationale is the returned
\* (clamped) score shown to one decimal, and the rationale ends with
\* "No red flags detected." exactly when policy_flags is empty.
C12_RationaleShowsReturnedScore ==
    cpc = "return" =>
        /\ classification.rationale[2]
              = format_1f(classification.score, classification.score_err)
        /\ (classification.rationale[Len(classification.rationale)]
              = "No red flags detected.") <=> (classification.policy_flags = <<>>)

SaidYes == ~fraud.raised /\ Contains(T_yes, Lower(Strip(fraud.text)))

InFlags(f) == \E i \in 1..Len(classification.policy_flags) : classification.policy_flags[i] = f

\* C10 as stated: a fraud flag is in policy_flags only when the fraud answer
\* says yes and the keyword check against the raw narrative passes for that
\* flag; never on the strength of the model's output alone.
C10_FlagsCorroborated ==
    cpc = "return" =>
        /\ InFlags("memory_issues") =>
              SaidYes /\ Contains(T_dont_know, Lower(transcript))
        /\ InFlags("missing_documentation") =>
              SaidYes /\ Contains(T_lost, Lower(transcript))
                      /\ Contains(T_documents, Lower(transcript))
        /\ InFlags("third_party_caller") =>
              SaidYes /\ Contains(T_friend, Lower(transcript))

----------------------------------------------------------------------------
(* The similarity index: similarity.py, scripts/build_faiss.py *)

MaxCorpus == 4
MaxClaims == 2
TopK == 3

Ok(n) == [state |-> "ok", count |-> n]
Partial == [state |-> "partial", count |-> 0]

\* load_index: read_index and json.load raise on a file that was not written
\* to its end; the globals are assigned as each file is read, before the
\* counts are compared
load_index(di, dm, idx, meta) ==
    IF di.state = "partial"
    THEN [raised |-> TRUE, ret |-> FALSE, index |-> idx, meta |-> meta]
    ELSE LET idx1 == IF di.state = "ok" THEN Some(di.count) ELSE idx
         IN  IF dm.state = "partial"
             THEN [raised |-> TRUE, ret |-> FALSE, index |-> idx1, meta |-> meta]
             ELSE LET meta1 == IF dm.state = "ok" THEN dm.count ELSE meta
                  IN  [raised |-> FALSE,
                       ret |-> idx1 # None /\ meta1 = (IF idx1 # None THEN idx1[1] ELSE 0),
                       index |-> idx1, meta |-> meta1]

\* get_model inside embed_texts, one caller: constructs the model when none is cached
embed_raises(model, env) == model = None /\ env = "unavailable"
embed_model(model, env) == IF model = None /\ env = "available" THEN Some(1) ELSE model

\* index.search(q, m): m distinct positions of the index, best first
Hits(n, m) == {h \in [1..m -> 0..(n - 1)] : \A i, j \in 1..m : h[i] = h[j] => i = j}

\* query_similar up to the search (lines 43-49): `go` says whether it goes on
\* to search, with the globals and the cached model it leaves behind
query_prepare(di, dm, idx, meta, model, env) ==
    LET need == idx = None \/ meta = 0
        L == IF need THEN load_index(di, dm, idx, meta)
             ELSE [raised |-> FALSE, ret |-> TRUE, index |-> idx, meta |-> meta]
    IN  IF L.raised
        THEN [raised |-> TRUE, go |-> FALSE, index |-> L.index, meta |-> L.meta,
              model |-> model]
        ELSE IF ~L.ret \/ L.index = None
        THEN [raised |-> FALSE, go |-> FALSE, index |-> L.index, meta |-> L.meta,
              model |-> model]
        ELSE IF embed_raises(model, env)
        THEN [raised |-> TRUE, go |-> FALSE, index |-> L.index, meta |-> L.meta,
              model |-> model]
        ELSE [raised |-> FALSE, go |-> TRUE, index |-> L.index, meta |-> L.meta,
              model |-> embed_model(model, env)]

\* lines 51-58: `_meta[idx]` raises IndexError past the end of the metadata
lookup_raises(hits, meta) == \E i \in 1..Len(hits) : hits[i] >= meta

CountsDisagree(di, dm) ==
    /\ di.state # "partial" /\ dm.state # "partial"
    /\ \/ (di.state = "absent") # (dm.state = "absent")
       \/ di.state = "ok" /\ dm.state = "ok" /\ di.count # dm.count

\* what extract_entities' six invoke() calls do in a request: all give a
\* reply the validators accept, all raise, or one of them raises
GoodReply ==
    [name |-> T_Bob, phone |-> <<"5">>, date |-> T_May5, location |-> T_Almaty,
     amount |-> T_amount, description |-> Rep("a", MinDescription + 1)]

PipelineOutcomes ==
    {[p \in Prompts |-> IF p \in failed THEN Raised ELSE Returned(GoodReply[p])] :
        failed \in {{}, Prompts, {"name"}, {"description"}}}

CorpusSizes == {0, 1, MaxCorpus}

RequestNarratives == {<<" ">>, <<" ", "5", " ">>}

ServiceInit ==
    /\ transcript = <<>>
    /\ llm \in {"loaded", "None"}
    /\ extracted = None /\ classification = None
    /\ disk_index = Absent /\ disk_meta = Absent
    /\ _index = None /\ _meta = 0
    /\ embedder \in {"available", "unavailable"}
    /\ bpc = "idle" /\ corpus = 0
    /\ last = NoQuery
    /\ rpc = "idle" /\ similar = None /\ response = None
    /\ _model = None
    /\ claims = <<>> /\ emails = <<>> /\ accepted = <<>> /\ http = None
    /\ ExtractIdle /\ ClassifyIdle
    /\ tpc = <<>> /\ inst = <<>> /\ constructed = 0 /\ got = <<>>

requestState == <<transcript, extracted, classification, rpc, similar, response>>
serverState == <<llm, _index, _meta, _model>>
diskState == <<disk_index, disk_meta>>
tables == <<claims, emails, accepted, http>>

(* scripts/build_faiss.py running build_index in a process of its own,    *)
(* while no request is under way                                          *)

StartBuild ==
    /\ bpc = "idle" /\ rpc = "idle"
    /\ corpus' \in CorpusSizes
    /\ bpc' = "embed"
    /\ last' = NoQuery
    /\ UNCHANGED <<requestState, serverState, diskState, embedder, tables, notService>>

\* lines 28-31: embed_texts raises when the model cannot be loaded, and
\* vecs.shape[1] raises on an empty corpus; nothing has been written yet
BuildEmbed ==
    /\ bpc = "embed"
    /\ bpc' = IF embedder = "unavailable" \/ corpus = 0 THEN "idle" ELSE "write_index"
    /\ UNCHANGED <<requestState, serverState, diskState, embedder, corpus, last, tables,
                   notService>>

\* line 32: faiss.write_index opens the file for writing ...
BuildWriteIndexOpen ==
    /\ bpc = "write_index"
    /\ disk_index' = Partial
    /\ bpc' = "writing_index"
    /\ UNCHANGED <<requestState, serverState, disk_meta, embedder, corpus, last, tables,
                   notService>>

\* ... and writes it
BuildWriteIndexDone ==
    /\ bpc = "writing_index"
    /\ disk_index' = Ok(corpus)
    /\ bpc' = "open_meta"
    /\ UNCHANGED <<requestState, serverState, disk_meta, embedder, corpus, last, tables,
                   notService>>

\* line 33: open(META_PATH, "w") truncates the file
BuildOpenMeta ==
    /\ bpc = "open_meta"
    /\ disk_meta' = Partial
    /\ bpc' = "dump_meta"
    /\ UNCHANGED <<requestState, serverState, disk_index, embedder, corpus, last, tables,
                   notService>>

\* line 34 and the end of the with block
BuildDumpMeta ==
    /\ bpc = "dump_meta"
    /\ disk_meta' = Ok(corpus)
    /\ bpc' = "assign"
    /\ UNCHANGED <<requestState, serverState, disk_index, embedder, corpus, last, tables,
                   notService>>

\* lines 35-37: the globals assigned are the script's own; the script then ends
BuildAssign ==
    /\ bpc = "assign"
    /\ bpc' = "idle"
    /\ UNCHANGED <<requestState, serverState, diskState, embedder, corpus, last, tables,
                   notService>>

\* the script's process is killed somewhere inside build_index
ScriptCrash ==
    /\ bpc \notin {"idle", "embed"}
    /\ bpc' = "idle"
    /\ UNCHANGED <<requestState, serverState, diskState, embedder, corpus, last, tables,
                   notService>>

(* the server process *)

\* the server starts again: the module globals are initialised afresh
Restart ==
    /\ rpc = "idle" /\ bpc = "idle"
    /\ llm' \in {"loaded", "None"}
    /\ embedder' \in {"available", "unavailable"}
    /\ _index' = None /\ _meta' = 0 /\ _model' = None
    /\ last' = NoQuery
    /\ UNCHANGED <<requestState, corpus, bpc, diskState, tables, notService>>

\* load_index called on its own
LoadIndex ==
    /\ rpc = "idle" /\ bpc = "idle"
    /\ LET L == load_index(disk_index, disk_meta, _index, _meta)
       IN  /\ _index' = L.index
           /\ _meta' = L.meta
    /\ last' = NoQuery
    /\ UNCHANGED <<requestState, llm, _model, corpus, bpc, diskState, embedder, tables,
                   notService>>

(* ClaimViewSet.create *)

Receive ==
    /\ rpc = "idle" /\ bpc = "idle"
    /\ Len(claims) < MaxClaims
    /\ transcript' \in RequestNarratives
    /\ rpc' = "validate"
    /\ extracted' = None /\ classification' = None /\ similar' = None /\ response' = None
    /\ last' = NoQuery
    /\ UNCHANGED <<serverState, corpus, bpc, diskState, embedder, tables, notService>>

\* lines 16-18: CharField trims the text and rejects a blank one
Validate ==
    /\ rpc = "validate"
    /\ IF Strip(transcript) = <<>>
       THEN /\ response' = Some([status |-> 400])
            /\ rpc' = "idle"
            /\ UNCHANGED transcript
       ELSE /\ transcript' = Strip(transcript)
            /\ rpc' = "extract"
            /\ UNCHANGED response
    /\ UNCHANGED <<extracted, classification, similar, serverState, corpus, bpc, diskState,
                   embedder, last, tables, notService>>

\* line 21
CreateExtract ==
    /\ rpc = "extract"
    /\ \E o \in PipelineOutcomes : extracted' = extract_entities(transcript, llm, o)
    /\ rpc' = "classify"
    /\ UNCHANGED <<transcript, classification, similar, response, serverState, corpus, bpc,
                   diskState, embedder, last, tables, notService>>

\* line 24
CreateClassify ==
    /\ rpc = "classify"
    /\ \E o \in FraudInvoke(llm) :
         classification' = classify_claim(extracted, transcript, o)
    /\ rpc' = "similar"
    /\ UNCHANGED <<transcript, extracted, similar, response, serverState, corpus, bpc,
                   diskState, embedder, last, tables, notService>>

\* the parts of the composite that are there and well-formed
Parts(e, c, sim) ==
    (IF e # None /\ e.incident_description # None THEN {"extracted"} ELSE {})
    \cup (IF c # None /\ c.label \in {"valid", "invalid", "fraudulent"}
          THEN {"classification"} ELSE {})
    \cup (IF sim # None THEN {"similar"} ELSE {})

\* lines 27-38: query_similar(transcript, k=3), then the Claim row and the
\* 201 response; an exception raised by query_similar leaves create, which
\* the framework answers with 500
CreateSimilar ==
    /\ rpc = "similar"
    /\ LET Q == query_prepare(disk_index, disk_meta, _index, _meta, _model, embedder)
           n == Q.index[1]
           disagree == CountsDisagree(disk_index, disk_meta)
           fresh == /\ _index \in {None, Some(disk_index.count)}
                    /\ _meta \in {0, disk_meta.count}
       IN  /\ _index' = Q.index
           /\ _meta' = Q.meta
           /\ _model' = Q.model
           /\ \E hits \in (IF Q.go THEN Hits(n, Min(TopK, n)) ELSE {<<>>}) :
                LET raised == Q.raised \/ (Q.go /\ lookup_raises(hits, Q.meta))
                IN  /\ last' = [op |-> "query", raised |-> raised, searched |-> Q.go,
                                returned |-> IF raised THEN 0 ELSE Len(hits),
                                disagree |-> disagree, fresh |-> fresh,
                                index_count |-> IF Q.index = None THEN 0 ELSE n,
                                meta_count |-> Q.meta]
                    /\ IF raised
                       THEN /\ response' = Some([status |-> 500])
                            /\ UNCHANGED <<claims, accepted>>
                       ELSE /\ response' = Some([status |-> 201,
                                                 parts |-> Parts(extracted, classification,
                                                                 Some(hits))])
                            /\ claims' = Append(claims, "analysed")
                            /\ accepted' = Append(accepted, <<>>)
    /\ rpc' = "idle"
    /\ extracted' = None /\ classification' = None
    /\ UNCHANGED <<transcript, similar, llm, corpus, bpc, diskState, embedder, emails, http,
                   notService>>

ServiceNext ==
    \/ StartBuild
    \/ BuildEmbed
    \/ BuildWriteIndexOpen
    \/ BuildWriteIndexDone
    \/ BuildOpenMeta
    \/ BuildDumpMeta
    \/ BuildAssign
    \/ ScriptCrash
    \/ Restart
    \/ LoadIndex
    \/ Receive
    \/ Validate
    \/ CreateExtract
    \/ CreateClassify
    \/ CreateSimilar

SpecService == ServiceInit /\ [][ServiceNext]_vars

----------------------------------------------------------------------------
(* Claims about the pipeline and the index *)

\* C5 as stated: for every non-empty narrative and every combination of
\* failures of the generation backend, the embedding model and the index
\* storage, create completes with the composite of all three parts; no
\* backend failure reaches the caller as an exception (a 500 response).
C5_PipelineAlwaysCompletes ==
    (rpc = "idle" /\ response # None /\ Strip(transcript) # <<>>) =>
        /\ response[1].status = 201
        /\ response[1].parts = {"extracted", "classification", "similar"}

\* C6 as stated: no query searches an in-memory pair whose counts differ,
\* and while the two files disagree in count a query of a process that holds
\* nothing but what it read from them returns the empty list.
C6_MismatchedPairRejected ==
    last.op = "query" =>
        /\ last.searched => last.index_count = last.meta_count
        /\ (last.disagree /\ last.fresh) =>
              ~last.raised /\ ~last.searched /\ last.returned = 0

\* C7 as stated: whenever no build is running (it ended, or was killed at any
\* point), the two files are both absent or both complete with equal counts.
C7_DurablePairConsistent ==
    bpc = "idle" =>
        /\ disk_index.state = disk_meta.state
        /\ disk_index.state # "partial"
        /\ disk_index.count = disk_meta.count

----------------------------------------------------------------------------
(* The embedding model cache: embeddings.py, get_model called by threads *)

NThreads == 3

Threads == 1..NThreads

ModelInit ==
    /\ _model = None
    /\ embedder \in {"available", "unavailable"}
    /\ tpc = [t \in Threads |-> "idle"]
    /\ inst = [t \in Threads |-> 0]
    /\ got = [t \in Threads |-> 0]
    /\ constructed = 0
    /\ transcript = <<>> /\ llm = "loaded"
    /\ ExtractIdle /\ ClassifyIdle /\ AnalysisIdle /\ ActionIdle
    /\ disk_index = Absent /\ disk_meta = Absent /\ _index = None /\ _meta = 0
    /\ bpc = "idle" /\ corpus = 0 /\ last = NoQuery
    /\ rpc = "idle" /\ similar = None /\ response = None

modelFrame == <<transcript, llm, extractVars, classifyVars, analysisVars, disk_index,
                disk_meta, _index, _meta, embedder, bpc, corpus, last, requestVars,
                actionVars>>

\* embed_texts calls get_model
CallGetModel(t) ==
    /\ tpc[t] = "idle"
    /\ tpc' = [tpc EXCEPT ![t] = "check"]
    /\ UNCHANGED <<_model, inst, got, constructed, modelFrame>>

\* `if _model is None:`
CheckModel(t) ==
    /\ tpc[t] = "check"
    /\ tpc' = [tpc EXCEPT ![t] = IF _model = None THEN "construct" ELSE "return"]
    /\ UNCHANGED <<_model, inst, got, constructed, modelFrame>>

\* the right-hand side SentenceTransformer(...): a new instance, or a raise
ConstructModel(t) ==
    /\ tpc[t] = "construct"
    /\ IF embedder = "unavailable"
       THEN /\ tpc' = [tpc EXCEPT ![t] = "idle"]
            /\ UNCHANGED <<inst, constructed>>
       ELSE /\ constructed' = constructed + 1
            /\ inst' = [inst EXCEPT ![t] = constructed + 1]
            /\ tpc' = [tpc EXCEPT ![t] = "assign"]
    /\ UNCHANGED <<_model, got, modelFrame>>

\* `_model = ...`: the store to the global
AssignModel(t) ==
    /\ tpc[t] = "assign"
    /\ _model' = Some(inst[t])
    /\ tpc' = [tpc EXCEPT ![t] = "return"]
    /\ UNCHANGED <<inst, got, constructed, modelFrame>>

\* `return _model`, then model.encode in embed_texts
ReturnModel(t) ==
    /\ tpc[t] = "return"
    /\ got' = [got EXCEPT ![t] = _model[1]]
    /\ tpc' = [tpc EXCEPT ![t] = "idle"]
    /\ UNCHANGED <<_model, inst, constructed, modelFrame>>

ModelNext ==
    \/ \E t \in Threads : CallGetModel(t)
    \/ \E t \in Threads : CheckModel(t)
    \/ \E t \in Threads : ConstructModel(t)
    \/ \E t \in Threads : AssignModel(t)
    \/ \E t \in Threads : ReturnModel(t)

SpecModel == ModelInit /\ [][ModelNext]_vars

\* C8 as stated: however many threads call get_model while no model is
\* cached, the model is constructed at most once and every caller obtains
\* the same instance.
C8_SingleConstruction ==
    /\ constructed <= 1
    /\ \A t, u \in Threads : (got[t] # 0 /\ got[u] # 0) => got[t] = got[u]

----------------------------------------------------------------------------
(* The claim action endpoint: ClaimViewSet.action *)

MaxEmails == 3

ActionValues == {"approve", "deny", "escalate", "delete", "none"}
Recipients == {None, Some("test@example.com")}
DefaultRecipient == "ops@example.com"

\* a bug: the action value is not validated
handle_action_unvalidated(status, id, action_type, to) ==
    [http |-> 200,
     logs |-> <<[claim |-> id,
                 to |-> IF to = None THEN DefaultRecipient ELSE to[1],
                 subject |-> <<"Claim", id, action_type>>,
                 meta |-> action_type]>>,
     status |-> IF action_type = "approve" THEN "approved"
                ELSE IF action_type = "deny" THEN "denied"
                ELSE "escalated"]

\* lines 44-67 for an existing claim: the response status, the EmailLog rows
\* created and the claim's status afterwards
handle_action(status, id, action_type, to) ==
    IF action_type \notin {"approve", "deny", "escalate"}
    THEN [http |-> 400, logs |-> <<>>, status |-> status]
    ELSE [http |-> 200,
          logs |-> <<[claim |-> id,
                      to |-> IF to = None THEN DefaultRecipient ELSE to[1],
                      subject |-> <<"Claim", id, action_type>>,
                      meta |-> action_type]>>,
          status |-> IF action_type = "approve" THEN "approved"
                     ELSE IF action_type = "deny" THEN "denied"
                     ELSE "escalated"]

ActionInit ==
    /\ claims = <<>> /\ emails = <<>> /\ accepted = <<>> /\ http = None
    /\ transcript = <<>> /\ llm = "loaded"
    /\ ExtractIdle /\ ClassifyIdle /\ AnalysisIdle /\ ServiceIdle /\ ModelIdle

\* a Claim row as create stores it
StoreClaim ==
    /\ Len(claims) < MaxClaims
    /\ claims' = Append(claims, "analysed")
    /\ accepted' = Append(accepted, <<>>)
    /\ http' = None
    /\ UNCHANGED <<emails, notAction>>

\* POST /claims/{id}/action/ with {"action": ..., "to": ...}
PostAction ==
    /\ Len(emails) < MaxEmails
    /\ \E id \in 1..MaxClaims, action_type \in ActionValues, to \in Recipients :
         IF id > Len(claims)
         THEN /\ http' = Some([status |-> 404, claim |-> id, action |-> action_type])
              /\ UNCHANGED <<claims, emails, accepted>>
         ELSE LET r == handle_action(claims[id], id, action_type, to)
              IN  /\ http' = Some([status |-> r.http, claim |-> id, action |-> action_type])
                  /\ emails' = emails \o r.logs
                  /\ claims' = [claims EXCEPT ![id] = r.status]
                  /\ accepted' = IF r.http = 200
                                 THEN [accepted EXCEPT
                                         ![id] = Append(@, [action |-> action_type, to |-> to])]
                                 ELSE accepted
    /\ UNCHANGED notAction

ActionNext ==
    \/ StoreClaim
    \/ PostAction

SpecAction == ActionInit /\ [][ActionNext]_vars

StatusFor(action_type) ==
    CASE action_type = "approve" -> "approved"
      [] action_type = "deny" -> "denied"
      [] action_type = "escalate" -> "escalated"
      [] OTHER -> "?"

EmailsOf(id) == SelectSeq(emails, LAMBDA e : e.claim = id)

\* C9: after any sequence of POSTs to the action endpoint, a request is
\* answered 200 exactly when its action is approve, deny or escalate and 400
\* for any other value; each claim has one EmailLog per accepted action, in
\* order, addressed to the recipient given (or the default), and its status
\* is the one of the last accepted action (untouched while none was accepted).
C9_ActionsLogged ==
    /\ \A id \in 1..Len(claims) :
          /\ Len(EmailsOf(id)) = Len(accepted[id])
          /\ \A i \in 1..Len(accepted[id]) :
                /\ accepted[id][i].action \in {"approve", "deny", "escalate"}
                /\ EmailsOf(id)[i].meta = accepted[id][i].action
                /\ EmailsOf(id)[i].to =
                      IF accepted[id][i].to = None THEN DefaultRecipient
                      ELSE accepted[id][i].to[1]
          /\ claims[id] = IF accepted[id] = <<>> THEN "analysed"
                          ELSE StatusFor(accepted[id][Len(accepted[id])].action)
    /\ (http # None /\ http[1].status # 404) =>
          http[1].status = IF http[1].action \in {"approve", "deny", "escalate"}
                           THEN 200 ELSE 400

\* a claim approved, then a rejected request, then denied: two logs, status denied
C9_Witness ==
    /\ Len(claims) >= 1
    /\ Len(accepted[1]) = 2
    /\ accepted[1][1].action = "approve"
    /\ accepted[1][2].action = "deny"
    /\ claims[1] = "denied"
    /\ Len(EmailsOf(1)) = 2
    /\ EmailsOf(1)[1].to = "test@example.com"
    /\ EmailsOf(1)[2].to = DefaultRecipient

====
